---- MODULE Spec2Model ----
(***************************************************************************)
(* Model of crates/core/src/matcher/pattern.rs: the Pattern compiler        *)
(* (try_new, contextual), the style dispatch of the Matcher trait           *)
(* (match_node_with_env, potential_kinds, get_match_len), and the tree      *)
(* matcher and kind matcher they call.  The tree matcher (match_tree) and    *)
(* KindMatcher are modelled from their contracts: a metavariable leaf       *)
(* captures or re-checks the candidate, other nodes need the kind, the      *)
(* leaf text and the children pairwise, MISSING children left out.          *)
(*                                                                           *)
(* Syntax trees are records [kind, tok, missing, kids].  Sources are given  *)
(* by their parse: a pattern source is a `program` tree built from a small  *)
(* expression grammar (identifier, binary_expression, expression_statement, *)
(* with an optional `;` that the parser may also insert as a MISSING node), *)
(* or the unparsable source.                                                 *)
(***************************************************************************)
EXTENDS Naturals, Sequences, FiniteSets

(* ------------------------------ bounds --------------------------------- *)

\* most tokens of a pattern source / contextual context
MaxTokens == 3
\* most tokens of a candidate node
MaxCandTokens == 3
\* largest byte offset at which a candidate node starts
MaxStart == 1
\* number of concurrent match attempts on one shared Pattern
NThreads == 2

(* --------------------------- syntax trees ------------------------------ *)

Leaf(k, t) == [kind |-> k, tok |-> t, missing |-> FALSE, kids |-> <<>>]

MissingLeaf(k) == [kind |-> k, tok |-> "", missing |-> TRUE, kids |-> <<>>]

Inner(k, ks) == [kind |-> k, tok |-> "", missing |-> FALSE, kids |-> ks]

\* grammar kinds of the language
Kinds == {"program", "expression_statement", "binary_expression", "identifier", "+", ";"}

\* identifier tokens a pattern may hold, metavariables included
PatternToks == {"x", "$A", "$B"}

\* identifier tokens of candidate code
CandToks == {"x", "y"}

Atoms(toks) == {Leaf("identifier", t) : t \in toks}

Bins(toks) ==
  {Inner("binary_expression", <<a, Leaf("+", "+"), b>>) : a \in Atoms(toks), b \in Atoms(toks)}

Exprs(toks) == Atoms(toks) \cup Bins(toks)

StmtTails == {<< >>, <<Leaf(";", ";")>>, <<MissingLeaf(";")>>}

Stmts(toks) ==
  {Inner("expression_statement", <<e>> \o tl) : e \in Exprs(toks), tl \in StmtTails}

RECURSIVE FlatText(_)
\* Node::text, as the sequence of the tokens the node spans
Text(n) ==
  IF Len(n.kids) = 0
  THEN (IF n.missing THEN << >> ELSE <<n.tok>>)
  ELSE FlatText(n.kids)

FlatText(ks) == IF ks = << >> THEN << >> ELSE Text(Head(ks)) \o FlatText(Tail(ks))

RECURSIVE StmtLists(_, _)
\* the lists of statements that hold at most maxTok tokens together
StmtLists(toks, maxTok) ==
  {<< >>} \cup
  UNION {{<<s>> \o q : q \in StmtLists(toks, maxTok - Len(Text(s)))} :
           s \in {st \in Stmts(toks) : Len(Text(st)) <= maxTok}}

\* top-level child lists: statements, or one statement and a MISSING node
TopLists(toks, maxTok) ==
  LET lists == StmtLists(toks, maxTok)
  IN lists \cup {ks \o <<MissingLeaf(";")>> : ks \in {l \in lists : Len(l) = 1}}

Programs(toks, maxTok) == {Inner("program", ks) : ks \in TopLists(toks, maxTok)}

\* the source the parser rejects
Unparsable == Inner("ERROR", << >>)

PatternSources == Programs(PatternToks, MaxTokens) \cup {Unparsable}

(* ------------------- collaborators of pattern.rs ----------------------- *)

NoErr == "none"

\* Root::try_new: the parsed tree, or the parser's error
RootTryNew(src) ==
  IF src = Unparsable
  THEN [ok |-> FALSE, err |-> "TSParse", root |-> src]
  ELSE [ok |-> TRUE, err |-> NoErr, root |-> src]

\* tree_sitter::Node::child_count
child_count(n) == Len(n.kids)

\* Node::is_leaf
is_leaf(n) == child_count(n) = 0

NoVar == "none"

\* extract_var_from_node: the metavariable a node's text names, if any
extract_var_from_node(n) ==
  LET t == Text(n)
  IN IF t = <<"$A">> THEN "A" ELSE IF t = <<"$B">> THEN "B" ELSE NoVar

\* metavariable names
Vars == {"A", "B"}

\* KindMatcher::try_new: the selector must name a kind of the grammar
KindMatcherTryNew(selector) ==
  IF selector \in Kinds
  THEN [ok |-> TRUE, err |-> NoErr, kind |-> selector]
  ELSE [ok |-> FALSE, err |-> "InvalidKind", kind |-> selector]

\* KindMatcher::match_node: a node matches by its kind alone
KindMatches(kind, n) == n.kind = kind

\* KindMatcher::potential_kinds: the one kind it matches
KindPotentialKinds(kind) == [some |-> TRUE, set |-> {kind}]

RECURSIVE Dfs(_)
RECURSIVE DfsAll(_)
\* the nodes of a tree in pre-order, the node itself first
Dfs(n) == <<n>> \o DfsAll(n.kids)

DfsAll(ks) == IF ks = << >> THEN << >> ELSE Dfs(Head(ks)) \o DfsAll(Tail(ks))

\* Node::find with a kind matcher: the first node of the tree, in pre-order,
\* that has the kind
Find(n, kind) ==
  LET hits == SelectSeq(Dfs(n), LAMBDA m : KindMatches(kind, m))
  IN IF hits = << >> THEN [some |-> FALSE, node |-> n] ELSE [some |-> TRUE, node |-> Head(hits)]

(* --------------------------- Pattern compiler -------------------------- *)

\* PatternStyle
Single == [tag |-> "Single", kind |-> ""]

Multiple == [tag |-> "Multiple", kind |-> ""]

Selector(k) == [tag |-> "Selector", kind |-> k]

NoStyle == [tag |-> "none", kind |-> ""]

\* a constructor's Result: Ok(Pattern {root, style}) or Err(PatternError)
Ok(root, style) == [ok |-> TRUE, err |-> NoErr, root |-> root, style |-> style]

Err(e, root) == [ok |-> FALSE, err |-> e, root |-> root, style |-> NoStyle]

is_single_node(n) ==
  CASE child_count(n) = 1 -> TRUE
    [] child_count(n) = 2 -> n.kids[2].missing
    [] OTHER -> FALSE

\* the disabled branch of try_new: a Pattern of style Multiple
ClassifyMultiMutant(src) == Ok(src, Multiple)

\* what try_new does with a root that is not a single node
ClassifyMulti(src) == Err("MultipleNode", src)

TryNew(src) ==
  LET parsed == RootTryNew(src)
  IN IF ~parsed.ok THEN Err(parsed.err, src)
     ELSE IF child_count(parsed.root) = 0 THEN Err("NoContent", src)
     ELSE IF is_single_node(parsed.root) THEN Ok(parsed.root, Single)
     ELSE ClassifyMulti(src)

\* contextual checking the selector before the parse result
ContextualMutant(context, selector) ==
  LET parsed == RootTryNew(context)
      km == KindMatcherTryNew(selector)
  IN IF ~km.ok THEN Err(km.err, context)
     ELSE IF ~parsed.ok THEN Err(parsed.err, context)
     ELSE IF ~Find(parsed.root, km.kind).some THEN Err("NoSelectorInContext", context)
     ELSE Ok(parsed.root, Selector(km.kind))

Contextual(context, selector) ==
  LET parsed == RootTryNew(context)
      km == KindMatcherTryNew(selector)
  IN IF ~parsed.ok THEN Err(parsed.err, context)
     ELSE IF ~km.ok THEN Err(km.err, context)
     ELSE IF ~Find(parsed.root, km.kind).some THEN Err("NoSelectorInContext", context)
     ELSE Ok(parsed.root, Selector(km.kind))

RECURSIVE Descend(_)
\* the loop of single_matcher
Descend(n) == IF is_single_node(n) THEN Descend(n.kids[1]) ELSE n

single_matcher(p) == Descend(p.root)

\* Pattern::kind_matcher: the selector node, searched again on every use
kind_matcher(p) == Find(p.root, p.style.kind).node

(* ------------------- metavariable environment, matcher ----------------- *)

Unbound == MissingLeaf("unbound")

\* MetaVarEnv: each metavariable's captured node, or Unbound
EmptyEnv == [v \in Vars |-> Unbound]

\* children with MISSING nodes left out
Present(ks) == SelectSeq(ks, LAMBDA k : ~k.missing)

\* a repeat occurrence accepted without comparing it with the capture
MatchLeafMetaVarMutant(v, cand, env) == [ok |-> TRUE, env |-> [env EXCEPT ![v] = cand]]

\* a metavariable leaf against a candidate: the first occurrence captures the
\* candidate, a repeat occurrence needs the captured text again
MatchLeafMetaVar(v, cand, env) ==
  IF env[v] = Unbound THEN [ok |-> TRUE, env |-> [env EXCEPT ![v] = cand]]
  ELSE [ok |-> Text(env[v]) = Text(cand), env |-> env]

RECURSIVE MatchTree(_, _, _)
RECURSIVE MatchKids(_, _, _)
\* the structural comparison of a pattern node and a candidate node; the
\* environment it returns holds the bindings made so far, also on failure
MatchTree(goal, cand, env) ==
  IF is_leaf(goal) /\ extract_var_from_node(goal) # NoVar
  THEN MatchLeafMetaVar(extract_var_from_node(goal), cand, env)
  ELSE IF goal.kind # cand.kind THEN [ok |-> FALSE, env |-> env]
  ELSE IF is_leaf(goal) THEN [ok |-> is_leaf(cand) /\ Text(goal) = Text(cand), env |-> env]
  ELSE LET gs == Present(goal.kids)
           cs == Present(cand.kids)
       IN IF Len(gs) # Len(cs) THEN [ok |-> FALSE, env |-> env] ELSE MatchKids(gs, cs, env)

MatchKids(gs, cs, env) ==
  IF gs = << >> THEN [ok |-> TRUE, env |-> env]
  ELSE LET r == MatchTree(Head(gs), Head(cs), env)
       IN IF r.ok THEN MatchKids(Tail(gs), Tail(cs), r.env) ELSE r

\* a candidate node: its subtree, the byte offset it starts at, and its
\* following siblings
Cand(n, start) == [node |-> n, start |-> start, next |-> << >>]

\* byte width of a token
TokWidth(t) == IF t \in {"$A", "$B"} THEN 2 ELSE 1

RECURSIVE Width(_)
Width(ts) == IF ts = << >> THEN 0 ELSE TokWidth(Head(ts)) + Width(Tail(ts))

\* Node::range
RangeStart(c) == c.start

RangeEnd(c) == c.start + Width(Text(c.node))

\* a failed match that keeps the bindings made before it failed
match_node_non_recursive_mutant(goal, c, env) ==
  LET r == MatchTree(goal, c.node, env)
  IN [some |-> r.ok, env |-> r.env]

\* match_node_non_recursive: Some(candidate) with the bindings added to env,
\* or None with env as it was
match_node_non_recursive(goal, c, env) ==
  LET r == MatchTree(goal, c.node, env)
  IN IF r.ok THEN [some |-> TRUE, env |-> r.env] ELSE [some |-> FALSE, env |-> env]

\* match_end_non_recursive: the byte offset where the match ends, or None
match_end_non_recursive(goal, c) ==
  LET r == MatchTree(goal, c.node, EmptyEnv)
  IN IF r.ok THEN [some |-> TRUE, val |-> RangeEnd(c)] ELSE [some |-> FALSE, val |-> 0]

\* match_multi_nodes_end_non_recursive: where the last matched candidate ends
match_multi_nodes_end_non_recursive(goals, c) ==
  LET gs == Present(goals)
      cands == <<c.node>> \o c.next
  IN IF Len(cands) >= Len(gs) /\ MatchKids(gs, SubSeq(cands, 1, Len(gs)), EmptyEnv).ok
     THEN [some |-> TRUE, val |-> c.start + Width(FlatText(SubSeq(cands, 1, Len(gs))))]
     ELSE [some |-> FALSE, val |-> 0]

\* match_nodes_non_recursive: the pattern's top-level children against the
\* candidate and its following siblings, in order
match_nodes_non_recursive(goals, cands, env) ==
  LET gs == Present(goals)
  IN IF Len(cands) < Len(gs) THEN [some |-> FALSE, env |-> env]
     ELSE LET r == MatchKids(gs, SubSeq(cands, 1, Len(gs)), env)
          IN IF r.ok THEN [some |-> TRUE, env |-> r.env] ELSE [some |-> FALSE, env |-> env]

\* multi_node_candidates: the node, then its following siblings
multi_node_candidates(c) == <<c.node>> \o c.next

(* ------------------------ impl Matcher for Pattern --------------------- *)

\* the node a Single or Selector pattern matches against
Target(p) == IF p.style.tag = "Selector" THEN kind_matcher(p) ELSE single_matcher(p)

\* a leaf that is a metavariable
BareMetaVar(n) == is_leaf(n) /\ extract_var_from_node(n) # NoVar

match_node_with_env(p, c, env) ==
  CASE p.style.tag = "Single" -> match_node_non_recursive(single_matcher(p), c, env)
    [] p.style.tag = "Multiple" ->
         match_nodes_non_recursive(p.root.kids, multi_node_candidates(c), env)
    [] OTHER -> match_node_non_recursive(kind_matcher(p), c, env)

NoKinds == [some |-> FALSE, set |-> {}]

OneKind(k) == [some |-> TRUE, set |-> {k}]

\* potential_kinds without the bare-metavariable case
potential_kinds_no_wildcard(p) ==
  CASE p.style.tag = "Selector" -> KindPotentialKinds(p.style.kind)
    [] p.style.tag = "Multiple" -> OneKind(p.root.kids[1].kind)
    [] OTHER -> OneKind(single_matcher(p).kind)

\* potential_kinds taking the kind of the root's first child, as for Multiple
potential_kinds_first_child(p) ==
  CASE p.style.tag = "Selector" -> KindPotentialKinds(p.style.kind)
    [] OTHER ->
         LET matcher == single_matcher(p)
         IN IF is_leaf(matcher) /\ extract_var_from_node(matcher) # NoVar
            THEN NoKinds
            ELSE OneKind(p.root.kids[1].kind)

potential_kinds(p) ==
  CASE p.style.tag = "Selector" -> KindPotentialKinds(p.style.kind)
    [] p.style.tag = "Multiple" -> OneKind(p.root.kids[1].kind)
    [] OTHER ->
         LET matcher == single_matcher(p)
         IN IF is_leaf(matcher) /\ extract_var_from_node(matcher) # NoVar
            THEN NoKinds
            ELSE OneKind(matcher.kind)

NoLen == [some |-> FALSE, val |-> 0]

\* get_match_len returning the end offset instead of the length
get_match_len_end(p, c) ==
  CASE p.style.tag = "Single" -> match_end_non_recursive(single_matcher(p), c)
    [] p.style.tag = "Selector" -> match_end_non_recursive(kind_matcher(p), c)
    [] OTHER -> match_multi_nodes_end_non_recursive(p.root.kids, c)

get_match_len(p, c) ==
  LET start == RangeStart(c)
      end == CASE p.style.tag = "Single" -> match_end_non_recursive(single_matcher(p), c)
               [] p.style.tag = "Selector" -> match_end_non_recursive(kind_matcher(p), c)
               [] OTHER -> match_multi_nodes_end_non_recursive(p.root.kids, c)
  IN IF end.some THEN [some |-> TRUE, val |-> end.val - start] ELSE NoLen

(* ----------------- one Pattern, compiled and then used ----------------- *)

VARIABLES
  call,     \* the constructor call made: [fn, src, selector]
  built,    \* what the constructor returned
  style0,   \* the style the constructor chose
  last,     \* the last Matcher operation on the pattern and what it returned
  att,      \* concurrent use: each thread's match attempt on the shared pattern
  envs      \* concurrent use: the environments the attempts write to

vars == <<call, built, style0, last, att, envs>>

Threads == 1..NThreads

Idle ==
  [pc |-> "idle", op |-> "none", cand |-> Cand(Unparsable, 0), work |-> << >>,
   some |-> FALSE, len |-> [some |-> FALSE, val |-> 0], kinds |-> [some |-> FALSE, set |-> {}]]

NoCall == [fn |-> "none", src |-> Unparsable, selector |-> ""]

NotBuilt == Err("none", Unparsable)

\* selector strings: the grammar's kinds and one that is no kind
Selectors == Kinds \cup {"no_such_kind"}

\* the candidate nodes a driver offers
CandNodes ==
  {n \in Exprs(CandToks) \cup Stmts(CandToks) : Len(Text(n)) <= MaxCandTokens}

\* a candidate starts its file, or lies MaxStart bytes into it
Starts == {0, MaxStart}

Cands == {Cand(n, st) : n \in CandNodes, st \in Starts}

\* environments handed to match_node_with_env: fresh, or holding a binding
EnvInputs == {EmptyEnv, [EmptyEnv EXCEPT !["A"] = Leaf("identifier", "x")]}

NoOp ==
  [op |-> "none", cand |-> Cand(Unparsable, 0), envIn |-> EmptyEnv, some |-> FALSE,
   envOut |-> EmptyEnv, len |-> NoLen, kinds |-> NoKinds]

Init ==
  /\ call = NoCall
  /\ built = NotBuilt
  /\ style0 = NoStyle
  /\ last = NoOp
  /\ att = [t \in Threads |-> Idle]
  /\ envs = [t \in Threads |-> EmptyEnv]

DoTryNew(src) ==
  /\ call.fn = "none"
  /\ call' = [fn |-> "try_new", src |-> src, selector |-> ""]
  /\ built' = TryNew(src)
  /\ style0' = TryNew(src).style
  /\ UNCHANGED <<last, att, envs>>

DoContextual(context, selector) ==
  /\ call.fn = "none"
  /\ call' = [fn |-> "contextual", src |-> context, selector |-> selector]
  /\ built' = Contextual(context, selector)
  /\ style0' = Contextual(context, selector).style
  /\ UNCHANGED <<last, att, envs>>

DoMatch(c, env) ==
  /\ built.ok
  /\ last.op = "none"
  /\ LET r == match_node_with_env(built, c, env)
     IN last' = [NoOp EXCEPT !.op = "match", !.cand = c, !.envIn = env,
                             !.some = r.some, !.envOut = r.env]
  /\ UNCHANGED <<call, built, style0, att, envs>>

DoPotentialKinds ==
  /\ built.ok
  /\ last.op = "none"
  /\ last' = [NoOp EXCEPT !.op = "kinds", !.kinds = potential_kinds(built)]
  /\ UNCHANGED <<call, built, style0, att, envs>>

DoGetMatchLen(c) ==
  /\ built.ok
  /\ last.op = "none"
  /\ LET r == get_match_len(built, c)
     IN last' = [NoOp EXCEPT !.op = "len", !.cand = c, !.some = r.some, !.len = r]
  /\ UNCHANGED <<call, built, style0, att, envs>>

\* the caller has taken the operation's result; the pattern stays in use
Return ==
  /\ last.op # "none"
  /\ last' = NoOp
  /\ UNCHANGED <<call, built, style0, att, envs>>

\* the sources a constructor can be called with: the pattern is compiled once
ToCompile(sources) == IF call.fn = "none" THEN sources ELSE {}

\* the candidates that can be offered: one operation at a time
Offered(cands) == IF built.ok /\ last.op = "none" THEN cands ELSE {}

Next ==
  \/ \E src \in ToCompile(PatternSources) : DoTryNew(src)
  \/ \E src \in ToCompile(PatternSources), sel \in Selectors : DoContextual(src, sel)
  \/ \E c \in Offered(Cands), env \in EnvInputs : DoMatch(c, env)
  \/ DoPotentialKinds
  \/ \E c \in Offered(Cands) : DoGetMatchLen(c)
  \/ Return

Spec == Init /\ [][Next]_vars

(* ------------------------------- claims -------------------------------- *)

RECURSIVE KindsIn(_)
RECURSIVE KindsInAll(_)
\* the kinds of the nodes of a tree
KindsIn(n) == {n.kind} \cup KindsInAll(n.kids)

KindsInAll(ks) == IF ks = << >> THEN {} ELSE KindsIn(Head(ks)) \cup KindsInAll(Tail(ks))

\* C1: for a source that parses, try_new fails with NoContent when the root
\* has no child, returns a Single pattern over that root when the root has
\* one child or two of which the second is MISSING, and fails with
\* MultipleNode otherwise; it never returns a pattern of style Multiple.
C1_TryNewOutcomes ==
  call.fn = "try_new" =>
    /\ built.style.tag # "Multiple"
    /\ RootTryNew(call.src).ok =>
         LET n == Len(call.src.kids)
         IN /\ (n = 0) => (~built.ok /\ built.err = "NoContent")
            /\ (n = 1 \/ (n = 2 /\ call.src.kids[2].missing)) =>
                 (built.ok /\ built.style = Single /\ built.root = call.src)
            /\ (n > 2 \/ (n = 2 /\ ~call.src.kids[2].missing)) =>
                 (~built.ok /\ built.err = "MultipleNode")

\* try_new was given a root of two children, the second MISSING, and
\* returned a Single pattern
C1_Witness ==
  /\ call.fn = "try_new"
  /\ Len(call.src.kids) = 2
  /\ call.src.kids[2].missing
  /\ built.ok
  /\ built.style = Single

\* C2: potential_kinds of a try_new pattern is None when the node
\* single_matcher returns is a metavariable leaf and otherwise the set of that
\* node's kind alone; of a contextual pattern it is the set of the selector's
\* kind alone, also when the selected node is a bare metavariable.
C2_PotentialKinds ==
  last.op = "kinds" =>
    /\ last.kinds.some => Cardinality(last.kinds.set) = 1
    /\ call.fn = "try_new" =>
         IF BareMetaVar(single_matcher(built))
         THEN ~last.kinds.some
         ELSE last.kinds.some /\ last.kinds.set = {single_matcher(built).kind}
    /\ call.fn = "contextual" =>
         (last.kinds.some /\ last.kinds.set = {call.selector})

\* potential_kinds of a try_new pattern whose metavariables lie below the
\* effective node (`$A + $B`) returned that node's kind
C2_Witness ==
  /\ last.op = "kinds"
  /\ call.fn = "try_new"
  /\ single_matcher(built) =
       Inner("binary_expression",
             <<Leaf("identifier", "$A"), Leaf("+", "+"), Leaf("identifier", "$B")>>)
  /\ last.kinds = OneKind("binary_expression")

\* C3 as stated: potential_kinds is None whenever the node the pattern matches
\* against is a bare metavariable, whichever style the pattern has.
C3_Original == (last.op = "kinds" /\ BareMetaVar(Target(built))) => ~last.kinds.some

\* C3 as amended: for a Single pattern potential_kinds is None exactly when
\* the effective node is a bare metavariable; for a Selector pattern whose
\* selected node is a bare metavariable it is the set of the selector's kind.
C3_Amended ==
  last.op = "kinds" =>
    /\ built.style = Single => (~last.kinds.some <=> BareMetaVar(Target(built)))
    /\ (built.style.tag = "Selector" /\ BareMetaVar(Target(built))) =>
         last.kinds = OneKind(built.style.kind)

\* potential_kinds of the Single pattern `$A` returned None
C3_Witness ==
  /\ last.op = "kinds"
  /\ built.style = Single
  /\ Target(built) = Leaf("identifier", "$A")
  /\ ~last.kinds.some

RECURSIVE Occurrences(_, _)
RECURSIVE OccurrencesAll(_, _)
\* the metavariable occurrences of a pattern node, each with the candidate
\* node at its place: pairs <<name, candidate>>
Occurrences(goal, cand) ==
  IF BareMetaVar(goal) THEN {<<extract_var_from_node(goal), cand>>}
  ELSE IF Len(Present(goal.kids)) # Len(Present(cand.kids)) THEN {}
  ELSE OccurrencesAll(Present(goal.kids), Present(cand.kids))

OccurrencesAll(gs, cs) ==
  IF gs = << >> THEN {}
  ELSE Occurrences(Head(gs), Head(cs)) \cup OccurrencesAll(Tail(gs), Tail(cs))

APlusA ==
  Inner("binary_expression",
        <<Leaf("identifier", "$A"), Leaf("+", "+"), Leaf("identifier", "$A")>>)

CandPlus(a, b) ==
  Inner("binary_expression",
        <<Leaf("identifier", a), Leaf("+", "+"), Leaf("identifier", b)>>)

\* C4: a match succeeds only if the candidates at all occurrences of one
\* metavariable have the same text, which is the text bound to it; `$A + $A`
\* with a fresh environment matches `x + x` and does not match `x + y`.
C4_RepeatVariable ==
  last.op = "match" =>
    /\ last.some =>
         \A o1 \in Occurrences(Target(built), last.cand.node) :
           /\ Text(last.envOut[o1[1]]) = Text(o1[2])
           /\ \A o2 \in Occurrences(Target(built), last.cand.node) :
                o1[1] = o2[1] => Text(o1[2]) = Text(o2[2])
    /\ (Target(built) = APlusA /\ last.envIn = EmptyEnv) =>
         /\ last.cand.node = CandPlus("x", "x") => last.some
         /\ last.cand.node = CandPlus("x", "y") => ~last.some

\* `$A + $A` matched `x + x`
C4_Witness ==
  /\ last.op = "match"
  /\ Target(built) = APlusA
  /\ last.cand.node = CandPlus("x", "x")
  /\ last.envIn = EmptyEnv
  /\ last.some

\* C5: contextual returns a Selector pattern exactly when the context parses,
\* the selector is a kind of the grammar and a node of the context has that
\* kind; otherwise it fails, with the parse error first, else InvalidKind,
\* else NoSelectorInContext, and returns no pattern.
C5_Contextual ==
  call.fn = "contextual" =>
    LET parses == call.src # Unparsable
        valid == call.selector \in Kinds
        present == call.selector \in KindsIn(call.src)
    IN /\ built.ok <=> (parses /\ valid /\ present)
       /\ built.ok => (built.root = call.src /\ built.style = Selector(call.selector))
       /\ ~built.ok => built.style = NoStyle
       /\ ~parses => built.err = "TSParse"
       /\ (parses /\ ~valid) => built.err = "InvalidKind"
       /\ (parses /\ valid /\ ~present) => built.err = "NoSelectorInContext"

\* contextual was given an unparsable context and a selector that is no kind
C5_Witness ==
  /\ call.fn = "contextual"
  /\ call.src = Unparsable
  /\ call.selector \notin Kinds
  /\ built.err = "TSParse"

C9_RootHasContent ==
  built.ok => (Len(built.root.kids) >= 1 /\ built.style = style0)

\* C10: if potential_kinds returns a set and the match of a candidate
\* succeeds, the candidate's kind is in the set.
C10_PruningSound ==
  (last.op = "match" /\ last.some /\ potential_kinds(built).some) =>
    last.cand.node.kind \in potential_kinds(built).set

(* ------------- concurrent match attempts on one shared Pattern --------- *)

\* sources and contexts of the shared pattern: one expression statement
ConcSources ==
  {src \in PatternSources : Len(src.kids) = 1 /\ Len(src.kids[1].kids) = 1}

\* candidates of the concurrent attempts: `x`, `x + x` and `x + y`
ConcCands ==
  {Cand(n, MaxStart) :
     n \in {Leaf("identifier", "x")} \cup
           {Inner("binary_expression", <<Leaf("identifier", "x"), Leaf("+", "+"), b>>) :
              b \in Atoms(CandToks)}}

\* every attempt writing to one environment
EnvOfShared(t) == 1

\* the environment an attempt writes to: its own (env: &mut MetaVarEnv)
EnvOf(t) == t

\* the attempt resolves the node to match from the shared pattern and starts
\* with the pair (that node, the candidate) on its work list
Begin(t, op, c) ==
  /\ built.ok
  /\ att[t].pc = "idle"
  /\ att' = [att EXCEPT ![t] = [Idle EXCEPT !.pc = "run", !.op = op, !.cand = c,
                                            !.work = <<[g |-> Target(built), c |-> c.node]>>]]
  /\ envs' = [envs EXCEPT ![EnvOf(t)] = EmptyEnv]
  /\ UNCHANGED <<call, built, style0, last>>

Fail(t) ==
  /\ att' = [att EXCEPT ![t].pc = "done", ![t].work = << >>, ![t].some = FALSE]
  /\ envs' = [envs EXCEPT ![EnvOf(t)] = EmptyEnv]

\* one step of the work list: the first pair is compared, and the pairs of
\* its children take its place
Step(t) ==
  /\ att[t].pc = "run"
  /\ att[t].work # << >>
  /\ LET goal == Head(att[t].work).g
         cand == Head(att[t].work).c
         rest == Tail(att[t].work)
         env == envs[EnvOf(t)]
         gs == Present(goal.kids)
         cs == Present(cand.kids)
     IN IF BareMetaVar(goal)
        THEN LET r == MatchLeafMetaVar(extract_var_from_node(goal), cand, env)
             IN IF r.ok
                THEN /\ att' = [att EXCEPT ![t].work = rest]
                     /\ envs' = [envs EXCEPT ![EnvOf(t)] = r.env]
                ELSE Fail(t)
        ELSE IF goal.kind # cand.kind THEN Fail(t)
        ELSE IF is_leaf(goal)
        THEN IF is_leaf(cand) /\ Text(goal) = Text(cand)
             THEN att' = [att EXCEPT ![t].work = rest] /\ UNCHANGED envs
             ELSE Fail(t)
        ELSE IF Len(gs) # Len(cs) THEN Fail(t)
        ELSE /\ att' = [att EXCEPT ![t].work =
                          [i \in 1..Len(gs) |-> [g |-> gs[i], c |-> cs[i]]] \o rest]
             /\ UNCHANGED envs
  /\ UNCHANGED <<call, built, style0, last>>

\* the work list is empty: the attempt succeeded
Finish(t) ==
  /\ att[t].pc = "run"
  /\ att[t].work = << >>
  /\ att' = [att EXCEPT ![t].pc = "done", ![t].some = TRUE,
                        ![t].len = IF att[t].op = "len"
                                   THEN [some |-> TRUE,
                                         val |-> RangeEnd(att[t].cand) - RangeStart(att[t].cand)]
                                   ELSE NoLen]
  /\ UNCHANGED <<call, built, style0, last, envs>>

ConcKinds(t) ==
  /\ built.ok
  /\ att[t].pc = "idle"
  /\ att' = [att EXCEPT ![t] = [Idle EXCEPT !.pc = "done", !.op = "kinds",
                                            !.kinds = potential_kinds(built)]]
  /\ UNCHANGED <<call, built, style0, last, envs>>

\* the attempt's result is taken and its environment dropped
ConcReturn(t) ==
  /\ att[t].pc = "done"
  /\ att' = [att EXCEPT ![t] = Idle]
  /\ envs' = [envs EXCEPT ![EnvOf(t)] = EmptyEnv]
  /\ UNCHANGED <<call, built, style0, last>>

ConcNext ==
  \/ \E src \in ToCompile(ConcSources) : DoTryNew(src)
  \/ \E src \in ToCompile(ConcSources), sel \in Selectors : DoContextual(src, sel)
  \/ \E t \in Threads, op \in {"match", "len"}, c \in ConcCands : Begin(t, op, c)
  \/ \E t \in Threads : Step(t)
  \/ \E t \in Threads : Finish(t)
  \/ \E t \in Threads : ConcKinds(t)
  \/ \E t \in Threads : ConcReturn(t)

SpecConc == Init /\ [][ConcNext]_vars

\* C8: whatever the interleaving, a finished attempt on the shared pattern
\* has the result and the bindings of the same operation run alone with a
\* fresh environment, and the pattern is still the one its constructor built.
C8_SharedPattern ==
  /\ built = (IF call.fn = "try_new" THEN TryNew(call.src)
              ELSE IF call.fn = "contextual" THEN Contextual(call.src, call.selector)
              ELSE NotBuilt)
  /\ \A t \in Threads :
       att[t].pc = "done" =>
         CASE att[t].op = "match" ->
                LET alone == match_node_with_env(built, att[t].cand, EmptyEnv)
                IN att[t].some = alone.some /\ envs[t] = alone.env
           [] att[t].op = "len" -> att[t].len = get_match_len(built, att[t].cand)
           [] OTHER -> att[t].kinds = potential_kinds(built)

\* two attempts are under way at once, one of them finished with bindings
C8_Witness ==
  \E t \in Threads, u \in Threads :
    /\ t # u
    /\ att[t].pc = "done" /\ att[t].op = "match" /\ att[t].some
    /\ envs[t] # EmptyEnv
    /\ att[u].pc = "run" /\ envs[u] # EmptyEnv

====
